---- MODULE Spec2Model ----
(***************************************************************************)
(* Verification model of lib/utils.ts: the shape-polymorphic aggregator    *)
(* (countByWithMap, countByWithObj, groupByWithMap, groupByWithObj,        *)
(* extractKeysFrom) and the two call-counting primitives (justOnce, cut).  *)
(*                                                                         *)
(* JavaScript values are records tagged by their typeof; objects live in a *)
(* heap (a sequence of objects, a reference is an index), so that aliasing *)
(* and writes to objects that exist before a call are visible.             *)
(***************************************************************************)
EXTENDS Integers, Sequences, FiniteSets, TLC

\* ---------------------------------------------------------------- bounds
MaxLen == 3      \* largest number of elements of a source container
MaxNum == 2      \* largest number used as an element, a value or an argument
MaxCalls == 3    \* largest number of invocations of a justOnce wrapper
MaxLimit == 4    \* largest limit given to cut
MaxTasks == 4    \* largest number of asynchronous tasks calling done
MaxDone == 3     \* largest number of calls of one function returned by cut

\* ---------------------------------------------------------------- values
Num(n) == [t |-> "number", n |-> n]
Str(s) == [t |-> "string", s |-> s]
Bool(b) == [t |-> "boolean", b |-> b]
Undefined == [t |-> "undefined"]
Null == [t |-> "null"]
Ref(r) == [t |-> "object", r |-> r]
\* the two-element array [k, v] built by Object.entries / args.slice(0, 2).reverse()
Entry(k, v) == [t |-> "entry", k |-> k, v |-> v]

\* Number::toString on integers (decimal digits, a sign for negatives)
Digit(d) ==
  CASE d = 0 -> "0" [] d = 1 -> "1" [] d = 2 -> "2" [] d = 3 -> "3" [] d = 4 -> "4"
    [] d = 5 -> "5" [] d = 6 -> "6" [] d = 7 -> "7" [] d = 8 -> "8" [] d = 9 -> "9"

RECURSIVE NatToString(_)
NatToString(n) ==
  IF n < 10 THEN Digit(n) ELSE NatToString(n \div 10) \o Digit(n % 10)

NumToString(n) == IF n < 0 THEN "-" \o NatToString(-n) ELSE NatToString(n)

\* references of the objects that exist before any call
ObjectPrototype == 1
ObjectCtor == 2
ObjectToString == 3
SrcRef == 4

\* ToString of a value (ToPropertyKey for the values of the model); an
\* array is joined with ","
RECURSIVE JSToString(_, _)
RECURSIVE Join(_, _)
Join(h, items) ==
  IF items = <<>> THEN ""
  ELSE IF Len(items) = 1 THEN JSToString(h, items[1])
  ELSE JSToString(h, items[1]) \o "," \o Join(h, Tail(items))

JSToString(h, v) ==
  CASE v.t = "string" -> v.s
    [] v.t = "number" -> NumToString(v.n)
    [] v.t = "boolean" -> (IF v.b THEN "true" ELSE "false")
    [] v.t = "undefined" -> "undefined"
    [] v.t = "null" -> "null"
    [] v.t = "entry" -> Join(h, <<v.k, v.v>>)
    [] v.t = "object" ->
         (CASE h[v.r].kind = "function" -> "function " \o h[v.r].cls \o "() { [native code] }"
            [] h[v.r].kind = "map" -> "[object Map]"
            [] h[v.r].kind = "set" -> "[object Set]"
            [] h[v.r].kind \in {"array", "typedarray"} -> Join(h, h[v.r].items)
            [] OTHER -> "[object Object]")

\* ------------------------------------------------------------------ heap
\* Object.prototype.toString.call(obj).toString()
toType(h, v) ==
  CASE v.t = "number" -> "[object Number]"
    [] v.t = "string" -> "[object String]"
    [] v.t = "boolean" -> "[object Boolean]"
    [] v.t = "undefined" -> "[object Undefined]"
    [] v.t = "null" -> "[object Null]"
    [] v.t = "entry" -> "[object Array]"
    [] v.t = "object" ->
         (CASE h[v.r].kind = "object" -> "[object Object]"
            [] h[v.r].kind = "map" -> "[object Map]"
            [] h[v.r].kind = "set" -> "[object Set]"
            [] h[v.r].kind = "array" -> "[object Array]"
            [] h[v.r].kind = "typedarray" -> "[object Uint8Array]"
            [] h[v.r].kind = "function" -> "[object Function]")

isObject(h, v) == toType(h, v) = "[object Object]"

InstanceOf(h, v, kind) == v.t = "object" /\ h[v.r].kind = kind

NewObj(kind, cls, items) == [kind |-> kind, cls |-> cls, items |-> items]

\* a lookup that takes all objects for one key, as their string form
\* "[object Object]" would
IndexOfKeyCoerced(items, k) ==
  LET same(a, b) == a = b \/ (a.t = "object" /\ b.t = "object")
  IN IF \E i \in 1..Len(items) : same(items[i].k, k)
     THEN CHOOSE i \in 1..Len(items) : same(items[i].k, k)
     ELSE 0

\* position of key k in a sequence of entries, 0 when absent
IndexOfKey(items, k) ==
  IF \E i \in 1..Len(items) : items[i].k = k
  THEN CHOOSE i \in 1..Len(items) : items[i].k = k
  ELSE 0

IndexOfVal(items, v) ==
  IF \E i \in 1..Len(items) : items[i] = v
  THEN CHOOSE i \in 1..Len(items) : items[i] = v
  ELSE 0

\* a lookup guarded by the truthiness of the key: `key && map.get(key)`
MapGetTruthyKey(items, k) ==
  IF k.t \in {"undefined", "null"} \/ k = Num(0) \/ k = Str("") \/ k = Bool(FALSE)
     \/ IndexOfKey(items, k) = 0
  THEN Undefined
  ELSE items[IndexOfKey(items, k)].v

\* Map.prototype.get / set (SameValueZero on keys, insertion order kept)
MapGet(items, k) ==
  IF IndexOfKey(items, k) = 0 THEN Undefined ELSE items[IndexOfKey(items, k)].v

\* a set that deletes the key first: an updated key moves to the end
MapSetMoveToEnd(items, k, v) ==
  Append(SelectSeq(items, LAMBDA e : e.k # k), [k |-> k, v |-> v])

MapSet(items, k, v) ==
  IF IndexOfKey(items, k) = 0 THEN Append(items, [k |-> k, v |-> v])
  ELSE [items EXCEPT ![IndexOfKey(items, k)].v = v]

\* an add that does not look for the value
SetAddAgain(items, v) == Append(items, v)

\* Set.prototype.add
SetAdd(items, v) == IF IndexOfVal(items, v) = 0 THEN Append(items, v) ELSE items

\* integer-like property names are enumerated first, in ascending order
IntKey(s) ==
  IF \E n \in 0..(MaxLen + MaxNum) : NatToString(n) = s
  THEN CHOOSE n \in 0..(MaxLen + MaxNum) : NatToString(n) = s
  ELSE -1

\* CreateDataProperty on an ordinary object: own keys keep the order
\* integer-like ascending, then strings in creation order
DefineOwn(items, s, v) ==
  IF IndexOfKey(items, Str(s)) # 0
  THEN [items EXCEPT ![IndexOfKey(items, Str(s))].v = v]
  ELSE IF IntKey(s) < 0 THEN Append(items, [k |-> Str(s), v |-> v])
  ELSE LET before == {i \in 1..Len(items) :
                        IntKey(items[i].k.s) >= 0 /\ IntKey(items[i].k.s) < IntKey(s)}
           n == Cardinality(before)
       IN SubSeq(items, 1, n) \o <<[k |-> Str(s), v |-> v]>> \o SubSeq(items, n + 1, Len(items))

\* properties every ordinary object inherits from Object.prototype
Inherited(h, s) == MapGet(h[ObjectPrototype].items, Str(s))

\* obj[s] on an ordinary object: own property, else the __proto__ getter,
\* else the prototype chain
ObjGet(h, r, s) ==
  IF IndexOfKey(h[r].items, Str(s)) # 0 THEN MapGet(h[r].items, Str(s))
  ELSE IF s = "__proto__" THEN Ref(ObjectPrototype)
  ELSE Inherited(h, s)

\* obj[s] = v on an ordinary object: an own property is overwritten; without
\* an own property "__proto__" the write goes to the inherited setter, which
\* creates no own property (it ignores a primitive v; the values stored in
\* the objects of the model are primitives); any other name creates an own
\* data property
ObjSet(items, s, v) ==
  IF IndexOfKey(items, Str(s)) # 0 THEN DefineOwn(items, s, v)
  ELSE IF s = "__proto__" THEN items
  ELSE DefineOwn(items, s, v)

\* a + b of JavaScript: numeric addition, else string concatenation
JSAdd(h, a, b) ==
  IF a.t = "number" /\ b.t = "number" THEN Num(a.n + b.n)
  ELSE Str(JSToString(h, a) \o JSToString(h, b))

\* ------------------------------------------------------------- variables
VARIABLES
  heap,             \* the objects, a reference is an index
  heap0,            \* the heap when the call was made (snapshot)
  api,              \* the exported function the caller invoked
  struct,           \* parameter struct
  fn,               \* parameter fn (the classifier), by name
  fnOnEltsGrouped,  \* parameter fnOnEltsGrouped (the project), by name
  newStruct,        \* local newStruct (struct, or Object.entries(struct))
  ret,              \* local ret, a reference
  idx,              \* position of forEach in newStruct, from 1
  pc,               \* "call", "loop", "done" (returned ret), "threw"
  calls,            \* the calls made to fn / fnOnEltsGrouped, with arguments
  error,            \* the error that reached the caller, "none" without one
  \* justOnce
  onceFn,           \* parameter fn of justOnce, by name
  alreadyCalled,    \* local alreadyCalled of the closure
  invocations,      \* the argument lists the wrapper was invoked with
  fnRuns,           \* the argument lists fn was executed with
  returns,          \* the values the wrapper returned, one per invocation
  \* cut
  limit,            \* parameter limit
  calls_finished,   \* local calls_finished of the closure
  callbackRuns,     \* for each run of callback, the tasks pending at that time
  nTasks,           \* number of asynchronous tasks that call done on completion
  pending,          \* the tasks that have not completed yet
  \* the other exported functions, and several closures / results at a time
  params,           \* the parameters of the call besides struct and fn
  guards,           \* the closures made by calls of justOnce
  barriers,         \* the closures made by calls of cut
  results           \* the results returned by earlier aggregator calls

aggVars == <<heap, heap0, api, struct, fn, fnOnEltsGrouped, newStruct, ret, idx, pc, calls, error>>
onceVars == <<onceFn, alreadyCalled, invocations, fnRuns, returns>>
cutVars == <<limit, calls_finished, callbackRuns, nTasks, pending>>
libVars == <<params, guards, barriers, results>>
vars == <<aggVars, onceVars, cutVars, libVars>>

\* the parts of the state a specification does not use
AggIdle ==
  /\ heap = <<>> /\ heap0 = <<>> /\ api = "none" /\ struct = Undefined
  /\ fn = "none" /\ fnOnEltsGrouped = "none" /\ newStruct = Undefined
  /\ ret = Undefined /\ idx = 0 /\ pc = "idle" /\ calls = <<>> /\ error = "none"

LibIdle == params = <<>> /\ guards = <<>> /\ barriers = <<>> /\ results = <<>>

OnceIdle ==
  /\ onceFn = "none" /\ alreadyCalled = FALSE /\ invocations = <<>>
  /\ fnRuns = <<>> /\ returns = <<>>

CutIdle ==
  /\ limit = 0 /\ calls_finished = 0 /\ callbackRuns = <<>>
  /\ nTasks = 0 /\ pending = {}

\* --------------------------------------------------------------- inputs
SeqsUpTo(S, n) == UNION {[1..m -> S] : m \in 0..n}

NoDup(s) == \A i, j \in 1..Len(s) : i # j => s[i] # s[j]

DistinctKeys(s) == \A i, j \in 1..Len(s) : i # j => s[i].k # s[j].k

\* [[OwnPropertyKeys]] order: integer-like names ascending, then the others
ValidKeyOrder(s) ==
  \A i, j \in 1..Len(s) : i < j =>
    /\ IntKey(s[j].k.s) >= 0 => IntKey(s[i].k.s) >= 0
    /\ IntKey(s[j].k.s) >= 0 => IntKey(s[i].k.s) < IntKey(s[j].k.s)

ElemVals == {Num(n) : n \in 0..MaxNum}
MapKeys == {Str("a"), Str("b"), Num(1)}
ObjKeys == {Str("a"), Str("b"), Str("1"), Str("__proto__")}
EntryVals == {Num(n) : n \in 1..MaxNum}

ArraySources == {NewObj("array", "Array", s) : s \in SeqsUpTo(ElemVals, MaxLen)}

SetSources == {NewObj("set", "Set", s) : s \in {q \in SeqsUpTo(ElemVals, MaxLen) : NoDup(q)}}

MapSources ==
  {NewObj("map", "Map", s) :
     s \in {q \in SeqsUpTo([k : MapKeys, v : EntryVals], MaxLen) : DistinctKeys(q)}}

\* plain objects and instances of a user class (own enumerable string keys)
ObjectSources ==
  {NewObj("object", c, s) :
     c \in {"Object", "myClass"},
     s \in {q \in SeqsUpTo([k : ObjKeys, v : EntryVals], MaxLen) :
              DistinctKeys(q) /\ ValidKeyOrder(q)}}

\* a Uint8Array: it has forEach and is no record, Map, Set or Array
TypedArraySources == {NewObj("typedarray", "Uint8Array", s) : s \in SeqsUpTo(ElemVals, MaxLen)}

Sources ==
  ArraySources \cup SetSources \cup MapSources \cup ObjectSources \cup TypedArraySources

\* arrays and Sets of falsy values
FalsyVals == {Num(0), Str(""), Bool(FALSE), Null, Undefined}

FalsySources ==
  {NewObj("array", "Array", s) : s \in SeqsUpTo(FalsyVals, MaxLen)}
  \cup {NewObj("set", "Set", s) : s \in {q \in SeqsUpTo(FalsyVals, MaxLen) : NoDup(q)}}

\* the `key` of an element of extractKeysFrom: a string, an object of its
\* own, or one object shared by several elements
ElemKeys == {"ann", "bob", "constructor", "nonPrimitive", "shared"}

\* the objects that exist before any call
Builtins ==
  << NewObj("object", "Object",
            << [k |-> Str("constructor"), v |-> Ref(ObjectCtor)],
               [k |-> Str("toString"), v |-> Ref(ObjectToString)] >>),
     NewObj("function", "Object", <<>>),
     NewObj("function", "toString", <<>>) >>

\* ------------------------------------------------------------ callbacks
\* the classifiers the callers of the model pass as fn
Classifiers(kind) ==
  IF kind = "object"
  THEN {"isEvenEntry", "constKey", "noReturn", "second", "ctorName", "throwsOnOneEntry"}
  ELSE IF kind = "typedarray" THEN {"isEven", "throwsOnOne"}
  ELSE {"isEven", "constKey", "noReturn", "second", "ctorName", "throwsOnOne"}

Projects(kind) ==
  IF kind \in {"object", "map"} THEN {"identity", "decrementEntry", "throwsOnOneEntry"}
  ELSE IF kind = "typedarray" THEN {"identity", "throwsOnOne"}
  ELSE {"identity", "decrement", "throwsOnOne"}

\* projects that return equal values, or entries with equal keys, for
\* different elements; they are paired with the classifier `constKey`
CollidingProjects(kind) ==
  IF kind \in {"object", "map"} THEN {"constKeyEntry"}
  ELSE IF kind = "typedarray" THEN {}
  ELSE {"parity"}

\* the classifiers passed with a source of falsy elements
FalsyClassifiers == {"self", "noReturn"}

\* a callback that throws: (v) => { if (v === 1) throw new Error("boom"); ... }
\* and its form for [key, value] units
Throws(f, x) ==
  \/ f = "throwsOnOne" /\ x = Num(1)
  \/ f = "throwsOnOneEntry" /\ x.t = "entry" /\ x.v = Num(1)

\* fn(...args) throws
ClassifyThrows(f, args) == Throws(f, args[1])

\* fnOnEltsGrouped(val) throws
ProjectThrows(p, val) == Throws(p, val)

\* fn(...args)
Classify(f, args, h) ==
  CASE f = "isEven" -> Bool(args[1].n % 2 = 0)            \* (v) => v % 2 === 0
    [] f = "isEvenEntry" -> Bool(args[1].v.n % 2 = 0)     \* ([k, v]) => v % 2 === 0
    [] f = "constKey" -> Str("key")                       \* () => "key"
    [] f = "noReturn" -> Undefined                        \* () => { }
    [] f = "self" -> args[1]                              \* (v) => v
    [] f = "second" -> args[2]                            \* (v, k) => k
    [] f = "ctorName" -> Str("constructor")               \* () => "constructor"
    [] f = "keyOf" -> ObjGet(h, args[1].r, "key")         \* (v) => v.key
    [] f \in {"throwsOnOne", "throwsOnOneEntry"} -> Str("key")

\* the recipe (draft) => { delete draft.key } applied to the own properties
ApplyRecipe(recipe, items) ==
  IF recipe = "deleteKey"
  THEN SelectSeq(items, LAMBDA e : e.k # Str("key"))
  ELSE items

\* produce(obj, recipe) of immer, for a recipe that leaves the draft with the
\* entries `edited`: an edited draft becomes a new object, an unedited one
\* returns obj; obj itself is never written
produce(h, obj, edited) ==
  IF edited = h[obj.r].items
  THEN [val |-> obj, heap |-> h]
  ELSE [val |-> Ref(Len(h) + 1),
        heap |-> Append(h, [h[obj.r] EXCEPT !.items = edited])]

\* copyOnWrite without the draft: the recipe edits obj itself
copyOnWriteInPlace(h, obj, recipe) ==
  [val |-> obj,
   heap |-> [h EXCEPT ![obj.r].items = ApplyRecipe(recipe, h[obj.r].items)]]

\* copyOnWrite(obj, changeFn) = produce(obj, changeFn)
copyOnWrite(h, obj, recipe) == produce(h, obj, ApplyRecipe(recipe, h[obj.r].items))

\* fnOnEltsGrouped(val): the value returned and the heap after the call
Project(p, val, h) ==
  CASE p = "identity" -> [val |-> val, heap |-> h]                      \* (x) => x
    [] p = "decrement" -> [val |-> Num(val.n - 1), heap |-> h]          \* (v) => v - 1
    [] p = "decrementEntry" ->                                          \* ([k, v]) => [k, v - 1]
         [val |-> Entry(val.k, Num(val.v.n - 1)), heap |-> h]
    [] p = "parity" -> [val |-> Num(val.n % 2), heap |-> h]             \* (v) => v % 2
    [] p = "constKeyEntry" ->                                           \* ([k, v]) => ["k", v]
         [val |-> Entry(Str("k"), val.v), heap |-> h]
    [] p = "withoutKey" -> copyOnWrite(h, val, "deleteKey")
    [] p \in {"throwsOnOne", "throwsOnOneEntry"} -> [val |-> val, heap |-> h]

\* Object.entries(obj): a new array of [key, value] arrays
ObjectEntries(items) == [i \in 1..Len(items) |-> Entry(items[i].k, items[i].v)]

\* the arguments forEach passes to its callback for the i-th element
ForEachArgs(h, s, i) ==
  LET o == h[s.r]
  IN CASE o.kind \in {"array", "typedarray"} -> <<o.items[i], Num(i - 1), s>>
       [] o.kind = "set" -> <<o.items[i], o.items[i], s>>
       [] o.kind = "map" -> <<o.items[i].v, o.items[i].k, s>>

Size(h, s) == Len(h[s.r].items)

\* the container forEach is called on: struct in the countBy functions
\* (reassigned to the entries of a record), newStruct in the groupBy ones
Traversed == IF api \in {"countByWithMap", "countByWithObj"} THEN struct ELSE newStruct

\* the bucket key fn yields for the i-th element of the traversal
KeyAt(i) == Classify(fn, ForEachArgs(heap, Traversed, i), heap)

\* the entries of the Map countByWithMap builds from the first n elements of
\* the traversal with the classifier of the call
RECURSIVE CountMap(_)
CountMap(n) ==
  IF n = 0 THEN <<>>
  ELSE LET m == CountMap(n - 1)
           key == KeyAt(n)
       IN IF MapGet(m, key) # Undefined
          THEN MapSet(m, key, JSAdd(heap, MapGet(m, key), Num(1)))
          ELSE MapSet(m, key, Num(1))

\* forEach with a callback that swallows what it throws
ForEachNextSwallow(threw, i, n) ==
  [pc |-> IF i = n THEN "done" ELSE "loop", idx |-> i + 1]

\* forEach after the callback on element i of n: an exception leaves forEach
\* and the exported function (neither has a try/catch); else the next element,
\* or the return after the last one
ForEachNext(threw, i, n) ==
  IF threw THEN [pc |-> "threw", idx |-> i]
  ELSE [pc |-> IF i = n THEN "done" ELSE "loop", idx |-> i + 1]

\* ----------------------------------------------------------------- Init
Init ==
  /\ \/ \E src \in Sources :
          /\ heap = Builtins \o <<src>>
          /\ \E f \in Classifiers(src.kind) : fn = f
          /\ \/ /\ api \in {"countByWithMap", "countByWithObj"}
                /\ fnOnEltsGrouped = "none"
             \/ /\ api \in {"groupByWithMap", "groupByWithObj"}
                /\ \E p \in Projects(src.kind) : fnOnEltsGrouped = p
             \/ /\ api \in {"groupByWithMap", "groupByWithObj"}
                /\ fn = "constKey"
                /\ \E p \in CollidingProjects(src.kind) : fnOnEltsGrouped = p
     \/ \E src \in FalsySources :
          /\ heap = Builtins \o <<src>>
          /\ \E f \in FalsyClassifiers : fn = f
          /\ \/ /\ api \in {"countByWithMap", "countByWithObj"}
                /\ fnOnEltsGrouped = "none"
             \/ /\ api \in {"groupByWithMap", "groupByWithObj"}
                /\ fnOnEltsGrouped = "identity"
     \/ \E elems \in SeqsUpTo([key : ElemKeys, name : {"waffle", "knife"}], MaxLen) :
          LET m == Len(elems)
              keyOf(i) == CASE elems[i].key = "nonPrimitive" -> Ref(SrcRef + m + i)
                            [] elems[i].key = "shared" -> Ref(SrcRef + 2 * m + 1)
                            [] OTHER -> Str(elems[i].key)
          IN /\ heap = Builtins
                       \o <<NewObj("array", "Array", [i \in 1..m |-> Ref(SrcRef + i)])>>
                       \o [i \in 1..m |->
                             NewObj("object", "Object",
                                    << [k |-> Str("key"), v |-> keyOf(i)],
                                       [k |-> Str("name"), v |-> Str(elems[i].name)] >>)]
                       \o [i \in 1..m + 1 |->
                             NewObj("object", "Object",
                                    << [k |-> Str("key"), v |-> Str("mama")] >>)]
             /\ \/ /\ api = "extractKeysFrom"
                   /\ fn = "none"
                   /\ fnOnEltsGrouped = "none"
                \/ /\ \A i \in 1..m : elems[i].name = "waffle"
                   /\ fn = "keyOf"
                   /\ \/ api = "countByWithMap" /\ fnOnEltsGrouped = "none"
                      \/ api = "groupByWithMap" /\ fnOnEltsGrouped = "identity"
  /\ heap0 = heap
  /\ struct = Ref(SrcRef)
  /\ newStruct = Undefined
  /\ ret = Undefined
  /\ idx = 0
  /\ pc = "call"
  /\ calls = <<>>
  /\ error = "none"
  /\ OnceIdle
  /\ CutIdle
  /\ LibIdle

\* -------------------------------------------------------------- actions
\* countByWithMap with a Map that starts with an entry: new Map([[undefined, 0]])
countByWithMapEnterSeeded ==
  /\ pc = "call" /\ api = "countByWithMap"
  /\ LET h1 == Append(heap, NewObj("map", "Map", <<[k |-> Undefined, v |-> Num(0)]>>))
         conv == isObject(heap, struct)
         h2 == IF conv
               THEN Append(h1, NewObj("array", "Array", ObjectEntries(heap[struct.r].items)))
               ELSE h1
         s2 == IF conv THEN Ref(Len(h2)) ELSE struct
     IN /\ heap' = h2
        /\ ret' = Ref(Len(h1))
        /\ struct' = s2
        /\ idx' = 1
        /\ pc' = IF Size(h2, s2) = 0 THEN "done" ELSE "loop"
  /\ UNCHANGED <<heap0, api, fn, fnOnEltsGrouped, newStruct, calls, error, onceVars, cutVars, libVars>>

\* countByWithMap up to forEach: ret = new Map(); a plain or custom object is
\* replaced by its entries
countByWithMapEnter ==
  /\ pc = "call" /\ api = "countByWithMap"
  /\ LET h1 == Append(heap, NewObj("map", "Map", <<>>))
         conv == isObject(heap, struct)
         h2 == IF conv
               THEN Append(h1, NewObj("array", "Array", ObjectEntries(heap[struct.r].items)))
               ELSE h1
         s2 == IF conv THEN Ref(Len(h2)) ELSE struct
     IN /\ heap' = h2
        /\ ret' = Ref(Len(h1))
        /\ struct' = s2
        /\ idx' = 1
        /\ pc' = IF Size(h2, s2) = 0 THEN "done" ELSE "loop"
  /\ UNCHANGED <<heap0, api, fn, fnOnEltsGrouped, newStruct, calls, error, onceVars, cutVars, libVars>>

\* the callback of countByWithMap without the increment: ret.set(key, 1)
countByWithMapEachNoIncrement ==
  /\ pc = "loop" /\ api = "countByWithMap"
  /\ LET args == ForEachArgs(heap, struct, idx)
         threw == ClassifyThrows(fn, args)
         key == Classify(fn, args, heap)
         nxt == ForEachNext(threw, idx, Size(heap, struct))
     IN /\ calls' = Append(calls, [f |-> "fn", args |-> args])
        /\ heap' = IF threw THEN heap
                   ELSE [heap EXCEPT ![ret.r].items = MapSet(@, key, Num(1))]
        /\ error' = IF threw THEN "Error: boom" ELSE error
        /\ idx' = nxt.idx
        /\ pc' = nxt.pc
  /\ UNCHANGED <<heap0, api, struct, fn, fnOnEltsGrouped, newStruct, ret, onceVars, cutVars, libVars>>

\* one callback of struct.forEach in countByWithMap
countByWithMapEach ==
  /\ pc = "loop" /\ api = "countByWithMap"
  /\ LET args == ForEachArgs(heap, struct, idx)
         threw == ClassifyThrows(fn, args)
         key == Classify(fn, args, heap)
         m == heap[ret.r].items
         m2 == IF MapGet(m, key) # Undefined
               THEN MapSet(m, key, JSAdd(heap, MapGet(m, key), Num(1)))
               ELSE MapSet(m, key, Num(1))
         nxt == ForEachNext(threw, idx, Size(heap, struct))
     IN /\ calls' = Append(calls, [f |-> "fn", args |-> args])
        /\ heap' = IF threw THEN heap ELSE [heap EXCEPT ![ret.r].items = m2]
        /\ error' = IF threw THEN "Error: boom" ELSE error
        /\ idx' = nxt.idx
        /\ pc' = nxt.pc
  /\ UNCHANGED <<heap0, api, struct, fn, fnOnEltsGrouped, newStruct, ret, onceVars, cutVars, libVars>>

\* countByWithObj up to forEach
countByWithObjEnter ==
  /\ pc = "call" /\ api = "countByWithObj"
  /\ LET h1 == Append(heap, NewObj("object", "Object", <<>>))
         conv == isObject(heap, struct)
         h2 == IF conv
               THEN Append(h1, NewObj("array", "Array", ObjectEntries(heap[struct.r].items)))
               ELSE h1
         s2 == IF conv THEN Ref(Len(h2)) ELSE struct
     IN /\ heap' = h2
        /\ ret' = Ref(Len(h1))
        /\ struct' = s2
        /\ idx' = 1
        /\ pc' = IF Size(h2, s2) = 0 THEN "done" ELSE "loop"
  /\ UNCHANGED <<heap0, api, fn, fnOnEltsGrouped, newStruct, calls, error, onceVars, cutVars, libVars>>

\* one callback of struct.forEach in countByWithObj
countByWithObjEach ==
  /\ pc = "loop" /\ api = "countByWithObj"
  /\ LET args == ForEachArgs(heap, struct, idx)
         threw == ClassifyThrows(fn, args)
         key == JSToString(heap, Classify(fn, args, heap))
         o == heap[ret.r].items
         o2 == IF ObjGet(heap, ret.r, key) # Undefined
               THEN ObjSet(o, key, JSAdd(heap, ObjGet(heap, ret.r, key), Num(1)))
               ELSE ObjSet(o, key, Num(1))
         nxt == ForEachNext(threw, idx, Size(heap, struct))
     IN /\ calls' = Append(calls, [f |-> "fn", args |-> args])
        /\ heap' = IF threw THEN heap ELSE [heap EXCEPT ![ret.r].items = o2]
        /\ error' = IF threw THEN "Error: boom" ELSE error
        /\ idx' = nxt.idx
        /\ pc' = nxt.pc
  /\ UNCHANGED <<heap0, api, struct, fn, fnOnEltsGrouped, newStruct, ret, onceVars, cutVars, libVars>>

\* finalVal[0] and finalVal[1]
At0(v) == IF v.t = "entry" THEN v.k ELSE Undefined

At1(v) == IF v.t = "entry" THEN v.v ELSE Undefined

\* a chain that ends in `else`: whatever is no record, Map or Set is an array
BranchElseArray(h, s) ==
  IF isObject(h, s) THEN "object"
  ELSE IF InstanceOf(h, s, "map") THEN "map"
  ELSE IF InstanceOf(h, s, "set") THEN "set"
  ELSE "array"

\* the branch of the callback taken for struct: isObject(struct), struct
\* instanceof Map, instanceof Set, instanceof Array; no branch otherwise
Branch(h, s) ==
  IF isObject(h, s) THEN "object"
  ELSE IF InstanceOf(h, s, "map") THEN "map"
  ELSE IF InstanceOf(h, s, "set") THEN "set"
  ELSE IF InstanceOf(h, s, "array") THEN "array"
  ELSE "none"

\* the unit of a Map left in the order of forEach, [value, key]
UnitOfNoReverse(kind, args) ==
  IF kind = "map" THEN Entry(args[1], args[2]) ELSE args[1]

\* val, the unit handed to fnOnEltsGrouped: args[0], or for a Map
\* args.slice(0, 2).reverse(), i.e. [key, value]
UnitOf(kind, args) == IF kind = "map" THEN Entry(args[2], args[1]) ELSE args[1]

\* fnOnEltsGrouped called before fn
CallLogProjectFirst(args, val, reached) ==
  (IF reached THEN <<[f |-> "fnOnEltsGrouped", args |-> <<val>>]>> ELSE <<>>)
  \o <<[f |-> "fn", args |-> args]>>

\* the calls one callback of forEach makes: fn(...args), then inside the
\* branch fnOnEltsGrouped(val) (reached when fn returned and a branch is taken)
CallLog(args, val, reached) ==
  <<[f |-> "fn", args |-> args]>>
  \o (IF reached THEN <<[f |-> "fnOnEltsGrouped", args |-> <<val>>]>> ELSE <<>>)

\* buckets of the variant of newStruct: a record gets an array of entries
NewBucketOfNewStruct(h, kind, finalVal) ==
  CASE kind = "object" -> NewObj("array", "Array", <<finalVal>>)
    [] kind = "map" -> NewObj("map", "Map", <<[k |-> At0(finalVal), v |-> At1(finalVal)]>>)
    [] kind = "set" -> NewObj("set", "Set", <<finalVal>>)
    [] kind = "array" -> NewObj("array", "Array", <<finalVal>>)

\* buckets created without their first element
NewBucketEmpty(h, kind, finalVal) ==
  CASE kind = "object" -> NewObj("object", "Object", <<>>)
    [] kind = "map" -> NewObj("map", "Map", <<>>)
    [] kind = "set" -> NewObj("set", "Set", <<>>)
    [] kind = "array" -> NewObj("array", "Array", <<>>)

\* the bucket created for the first element of a key:
\* { [structKey]: structVal }, new Map([[structKey, structVal]]),
\* new Set([finalVal]), [finalVal]
NewBucket(h, kind, finalVal) ==
  CASE kind = "object" ->
         NewObj("object", "Object",
                DefineOwn(<<>>, JSToString(h, At0(finalVal)), At1(finalVal)))
    [] kind = "map" -> NewObj("map", "Map", <<[k |-> At0(finalVal), v |-> At1(finalVal)]>>)
    [] kind = "set" -> NewObj("set", "Set", <<finalVal>>)
    [] kind = "array" -> NewObj("array", "Array", <<finalVal>>)

\* the write into the value b already found under the key:
\* b[structKey] = structVal, b.set(structKey, structVal), b.add(finalVal),
\* b.push(finalVal); a TypeError when b has no such method (or, for the
\* property write in strict mode, when b is a primitive)
InsertInto(h, kind, b, finalVal) ==
  CASE kind = "object" ->
         IF b.t = "object"
         THEN [threw |-> FALSE,
               heap |-> [h EXCEPT ![b.r].items =
                           ObjSet(@, JSToString(h, At0(finalVal)), At1(finalVal))]]
         ELSE [threw |-> TRUE, heap |-> h]
    [] kind = "map" ->
         IF InstanceOf(h, b, "map")
         THEN [threw |-> FALSE,
               heap |-> [h EXCEPT ![b.r].items = MapSet(@, At0(finalVal), At1(finalVal))]]
         ELSE [threw |-> TRUE, heap |-> h]
    [] kind = "set" ->
         IF InstanceOf(h, b, "set")
         THEN [threw |-> FALSE, heap |-> [h EXCEPT ![b.r].items = SetAdd(@, finalVal)]]
         ELSE [threw |-> TRUE, heap |-> h]
    [] kind = "array" ->
         IF InstanceOf(h, b, "array")
         THEN [threw |-> FALSE, heap |-> [h EXCEPT ![b.r].items = Append(@, finalVal)]]
         ELSE [threw |-> TRUE, heap |-> h]

\* groupByWithMap up to forEach: ret = new Map(); newStruct is struct, or the
\* entries of a plain or custom object
groupByWithMapEnter ==
  /\ pc = "call" /\ api = "groupByWithMap"
  /\ LET h1 == Append(heap, NewObj("map", "Map", <<>>))
         conv == isObject(heap, struct)
         h2 == IF conv
               THEN Append(h1, NewObj("array", "Array", ObjectEntries(heap[struct.r].items)))
               ELSE h1
         s2 == IF conv THEN Ref(Len(h2)) ELSE struct
     IN /\ heap' = h2
        /\ ret' = Ref(Len(h1))
        /\ newStruct' = s2
        /\ idx' = 1
        /\ pc' = IF Size(h2, s2) = 0 THEN "done" ELSE "loop"
  /\ UNCHANGED <<heap0, api, struct, fn, fnOnEltsGrouped, calls, error, onceVars, cutVars, libVars>>

\* one callback of newStruct.forEach in groupByWithMap
groupByWithMapEach ==
  /\ pc = "loop" /\ api = "groupByWithMap"
  /\ LET args == ForEachArgs(heap, newStruct, idx)
         fnThrew == ClassifyThrows(fn, args)
         retKey == Classify(fn, args, heap)
         kind == Branch(heap, struct)
         reached == ~fnThrew /\ kind # "none"
         val == UnitOf(kind, args)
         prThrew == reached /\ ProjectThrows(fnOnEltsGrouped, val)
         pr == Project(fnOnEltsGrouped, val, heap)
         b == MapGet(heap[ret.r].items, retKey)
         ins == InsertInto(pr.heap, kind, b, pr.val)
         written == reached /\ ~prThrew
         typeError == written /\ b # Undefined /\ ins.threw
         nxt == ForEachNext(fnThrew \/ prThrew \/ typeError, idx, Size(heap, newStruct))
     IN /\ calls' = calls \o CallLog(args, val, reached)
        /\ heap' = IF ~written THEN heap
                   ELSE IF b # Undefined THEN ins.heap
                   ELSE Append([pr.heap EXCEPT ![ret.r].items =
                                  MapSet(@, retKey, Ref(Len(pr.heap) + 1))],
                               NewBucket(pr.heap, kind, pr.val))
        /\ error' = IF fnThrew \/ prThrew THEN "Error: boom"
                    ELSE IF typeError THEN "TypeError" ELSE error
        /\ idx' = nxt.idx
        /\ pc' = nxt.pc
  /\ UNCHANGED <<heap0, api, struct, fn, fnOnEltsGrouped, newStruct, ret, onceVars, cutVars, libVars>>

\* extractKeysFrom: calls groupByWithObj with (v) => v.key and a project
\* that deletes `key` on a copy-on-write draft
extractKeysFrom ==
  /\ pc = "call" /\ api = "extractKeysFrom"
  /\ fn' = "keyOf"
  /\ fnOnEltsGrouped' = "withoutKey"
  /\ pc' = "inner"
  /\ UNCHANGED <<heap, heap0, api, struct, newStruct, ret, idx, calls, error, onceVars, cutVars, libVars>>

\* groupByWithObj up to forEach: ret = {}
groupByWithObjEnter ==
  /\ \/ pc = "call" /\ api = "groupByWithObj"
     \/ pc = "inner"
  /\ LET h1 == Append(heap, NewObj("object", "Object", <<>>))
         conv == isObject(heap, struct)
         h2 == IF conv
               THEN Append(h1, NewObj("array", "Array", ObjectEntries(heap[struct.r].items)))
               ELSE h1
         s2 == IF conv THEN Ref(Len(h2)) ELSE struct
     IN /\ heap' = h2
        /\ ret' = Ref(Len(h1))
        /\ newStruct' = s2
        /\ idx' = 1
        /\ pc' = IF Size(h2, s2) = 0 THEN "done" ELSE "loop"
  /\ UNCHANGED <<heap0, api, struct, fn, fnOnEltsGrouped, calls, error, onceVars, cutVars, libVars>>

\* one callback of newStruct.forEach in groupByWithObj
groupByWithObjEach ==
  /\ pc = "loop" /\ api \in {"groupByWithObj", "extractKeysFrom"}
  /\ LET args == ForEachArgs(heap, newStruct, idx)
         fnThrew == ClassifyThrows(fn, args)
         retKey == JSToString(heap, Classify(fn, args, heap))
         kind == Branch(heap, struct)
         reached == ~fnThrew /\ kind # "none"
         val == UnitOf(kind, args)
         prThrew == reached /\ ProjectThrows(fnOnEltsGrouped, val)
         pr == Project(fnOnEltsGrouped, val, heap)
         b == ObjGet(heap, ret.r, retKey)
         ins == InsertInto(pr.heap, kind, b, pr.val)
         written == reached /\ ~prThrew
         typeError == written /\ b # Undefined /\ ins.threw
         nxt == ForEachNext(fnThrew \/ prThrew \/ typeError, idx, Size(heap, newStruct))
     IN /\ calls' = calls \o CallLog(args, val, reached)
        /\ heap' = IF ~written THEN heap
                   ELSE IF b # Undefined THEN ins.heap
                   ELSE Append([pr.heap EXCEPT ![ret.r].items =
                                  ObjSet(@, retKey, Ref(Len(pr.heap) + 1))],
                               NewBucket(pr.heap, kind, pr.val))
        /\ error' = IF fnThrew \/ prThrew THEN "Error: boom"
                    ELSE IF typeError THEN "TypeError" ELSE error
        /\ idx' = nxt.idx
        /\ pc' = nxt.pc
  /\ UNCHANGED <<heap0, api, struct, fn, fnOnEltsGrouped, newStruct, ret, onceVars, cutVars, libVars>>

Next ==
  \/ countByWithMapEnter
  \/ countByWithMapEach
  \/ countByWithObjEnter
  \/ countByWithObjEach
  \/ groupByWithMapEnter
  \/ groupByWithMapEach
  \/ extractKeysFrom
  \/ groupByWithObjEnter
  \/ groupByWithObjEach

Spec == Init /\ [][Next]_vars

\* ------------------------------------------------------------- justOnce
\* the functions handed to justOnce: add = (x, y) => x + y and
\* mutateObj = (newVal) => { obj.val = newVal }
OnceFns == {"add", "mutateObj"}

ArgLists == {<<Num(x), Num(y)>> : x \in 0..MaxNum, y \in 0..MaxNum}

\* fn(...args)
ApplyFn(f, args) ==
  IF f = "add" THEN JSAdd(<<>>, args[1], args[2]) ELSE Undefined

\* justOnce(fn): the closure starts with alreadyCalled = false
InitJustOnce ==
  /\ AggIdle
  /\ CutIdle
  /\ LibIdle
  /\ onceFn \in OnceFns
  /\ alreadyCalled = FALSE
  /\ invocations = <<>>
  /\ fnRuns = <<>>
  /\ returns = <<>>

\* the wrapper without alreadyCalled = true
justOnceNoFlag ==
  /\ Len(invocations) < MaxCalls
  /\ \E args \in ArgLists :
       /\ invocations' = Append(invocations, args)
       /\ IF alreadyCalled
          THEN /\ returns' = Append(returns, Undefined)
               /\ UNCHANGED <<alreadyCalled, fnRuns>>
          ELSE /\ UNCHANGED alreadyCalled
               /\ fnRuns' = Append(fnRuns, args)
               /\ returns' = Append(returns, ApplyFn(onceFn, args))
  /\ UNCHANGED <<onceFn, aggVars, cutVars, libVars>>

\* the wrapper calling fn(...args) without returning its value
justOnceNoReturn ==
  /\ Len(invocations) < MaxCalls
  /\ \E args \in ArgLists :
       /\ invocations' = Append(invocations, args)
       /\ returns' = Append(returns, Undefined)
       /\ IF alreadyCalled
          THEN UNCHANGED <<alreadyCalled, fnRuns>>
          ELSE /\ alreadyCalled' = TRUE
               /\ fnRuns' = Append(fnRuns, args)
  /\ UNCHANGED <<onceFn, aggVars, cutVars, libVars>>

\* one invocation of the function returned by justOnce
justOnce ==
  /\ Len(invocations) < MaxCalls
  /\ \E args \in ArgLists :
       /\ invocations' = Append(invocations, args)
       /\ IF alreadyCalled
          THEN /\ returns' = Append(returns, Undefined)
               /\ UNCHANGED <<alreadyCalled, fnRuns>>
          ELSE /\ alreadyCalled' = TRUE
               /\ fnRuns' = Append(fnRuns, args)
               /\ returns' = Append(returns, ApplyFn(onceFn, args))
  /\ UNCHANGED <<onceFn, aggVars, cutVars, libVars>>

NextJustOnce == justOnce

SpecJustOnce == InitJustOnce /\ [][NextJustOnce]_vars

\* ------------------------------------------------------------------ cut
\* done = cut(limit, callback); nTasks asynchronous tasks are started, each
\* calls done once when it completes
InitCut ==
  /\ AggIdle
  /\ OnceIdle
  /\ LibIdle
  /\ limit \in 1..MaxLimit
  /\ nTasks \in 0..MaxTasks
  /\ pending = 1..nTasks
  /\ calls_finished = 0
  /\ callbackRuns = <<>>

\* done with calls_finished >= limit
cutAtLeast ==
  /\ \E t \in pending :
       /\ pending' = pending \ {t}
       /\ calls_finished' = calls_finished + 1
       /\ callbackRuns' = IF calls_finished + 1 >= limit
                          THEN Append(callbackRuns, pending \ {t})
                          ELSE callbackRuns
  /\ UNCHANGED <<limit, nTasks, aggVars, onceVars, libVars>>

\* done testing the counter before incrementing it
cutTestFirst ==
  /\ \E t \in pending :
       /\ pending' = pending \ {t}
       /\ calls_finished' = calls_finished + 1
       /\ callbackRuns' = IF calls_finished = limit
                          THEN Append(callbackRuns, pending \ {t})
                          ELSE callbackRuns
  /\ UNCHANGED <<limit, nTasks, aggVars, onceVars, libVars>>

\* a task completes and calls the function returned by cut
cut ==
  /\ \E t \in pending :
       /\ pending' = pending \ {t}
       /\ calls_finished' = calls_finished + 1
       /\ callbackRuns' = IF calls_finished + 1 = limit
                          THEN Append(callbackRuns, pending \ {t})
                          ELSE callbackRuns
  /\ UNCHANGED <<limit, nTasks, aggVars, onceVars, libVars>>

NextCut == cut

SpecCut == InitCut /\ [][NextCut]_vars

\* -------------------------------------- several closures and results
\* the functions handed to justOnce here: echo = (x) => x,
\* reenter = (x) => wrapper(x) (it invokes the wrapper it was given to) and
\* throws = () => { throw new Error("boom") }
GuardFns == {"echo", "reenter", "throws"}

GuardArgs == {Num(n) : n \in 0..1}

\* what the log of returns holds for an invocation that threw
Threw == [t |-> "threw"]

\* twice the limits given to cut (so that 1.5 can be written): -1, 0, 1, 1.5, 2
Limits2 == {2 * l : l \in -1..2} \cup {3}

\* the callbacks given to cut: plain = () => { }, reenter = () => done() and
\* throws = () => { throw new Error("boom") }
Callbacks == {"plain", "reenter", "throws"}

\* one variable shared by all closures
EnvShared(i) == 1

\* the variables a closure refers to: `let alreadyCalled` / `let
\* calls_finished` is executed by each call of justOnce / cut, so the i-th
\* closure has the i-th variable
Env(i) == i

\* alreadyCalled = true placed after the call of fn
FlagDuringFnLate(old) == old

\* alreadyCalled while fn runs (and after fn threw): it is set to true before
\* fn is entered
FlagDuringFn(old) == TRUE

\* calls_finished >= limit
LimitPassed(n, limit2) == 2 * n >= limit2

\* calls_finished === limit
LimitReached(n, limit2) == 2 * n = limit2

NewGuard(f) ==
  [fn |-> f, alreadyCalled |-> FALSE, invocations |-> <<>>, fnRuns |-> <<>>, returns |-> <<>>]

NewBarrier(l2, cb) ==
  [limit2 |-> l2, callback |-> cb, calls_finished |-> 0, dones |-> 0,
   callbackRuns |-> <<>>, errors |-> 0]

\* two calls of justOnce, or two calls of cut, or a source on which
\* countByWithMap is called twice
InitInstances ==
  /\ OnceIdle
  /\ CutIdle
  /\ params = <<>>
  /\ results = <<>>
  /\ \/ /\ guards \in [1..2 -> {NewGuard(f) : f \in GuardFns}]
        /\ barriers = <<>>
        /\ AggIdle
     \/ /\ guards = <<>>
        /\ barriers \in [1..2 -> {NewBarrier(l2, cb) : l2 \in Limits2, cb \in Callbacks}]
        /\ AggIdle
     \/ /\ guards = <<>>
        /\ barriers = <<>>
        /\ \E src \in ArraySources : heap = Builtins \o <<src>>
        /\ heap0 = heap
        /\ api = "countByWithMap"
        /\ struct = Ref(SrcRef)
        /\ fn \in {"isEven", "second"}
        /\ fnOnEltsGrouped = "none"
        /\ newStruct = Undefined /\ ret = Undefined /\ idx = 0 /\ pc = "idle"
        /\ calls = <<>> /\ error = "none"

\* one invocation of the wrapper of the g-th guard, with the invocation fn
\* makes when it is `reenter`
invoke ==
  /\ \E g \in DOMAIN guards, a \in GuardArgs :
       /\ Len(guards[g].invocations) < MaxCalls
       /\ LET flag == guards[Env(g)].alreadyCalled
              f == guards[g].fn
              inside == FlagDuringFn(flag)
              invs == IF f = "reenter" THEN <<a, a>> ELSE <<a>>
              runs == IF f = "reenter" /\ ~inside THEN <<a, a>> ELSE <<a>>
              rets == CASE f = "echo" -> <<a>>
                        [] f = "reenter" -> <<Undefined, Undefined>>
                        [] f = "throws" -> <<Threw>>
          IN IF flag
             THEN guards' = [guards EXCEPT ![g].invocations = Append(@, a),
                                           ![g].returns = Append(@, Undefined)]
             ELSE guards' = [guards EXCEPT ![g].invocations = @ \o invs,
                                           ![g].fnRuns = @ \o runs,
                                           ![g].returns = @ \o rets,
                                           ![Env(g)].alreadyCalled =
                                             IF f = "throws" THEN inside ELSE TRUE]
  /\ UNCHANGED <<aggVars, onceVars, cutVars, params, barriers, results>>

\* one call of the function returned by the b-th call of cut, with the call
\* callback makes when it is `reenter`
done ==
  /\ \E b \in DOMAIN barriers :
       /\ barriers[b].dones < MaxDone
       /\ LET B == barriers[b]
              n1 == barriers[Env(b)].calls_finished + 1
              fires == LimitReached(n1, B.limit2)
              nested == fires /\ B.callback = "reenter"
              n2 == IF nested THEN n1 + 1 ELSE n1
              firesAgain == nested /\ LimitReached(n2, B.limit2)
          IN barriers' = [barriers EXCEPT
                            ![b].dones = @ + 1,
                            ![b].callbackRuns = @ \o (IF fires THEN <<n1>> ELSE <<>>)
                                                  \o (IF firesAgain THEN <<n2>> ELSE <<>>),
                            ![b].errors = @ + (IF fires /\ B.callback = "throws" THEN 1 ELSE 0),
                            ![Env(b)].calls_finished = n2]
  /\ UNCHANGED <<aggVars, onceVars, cutVars, params, guards, results>>

\* a whole call countByWithMap(struct, fn): a new Map is allocated, filled
\* and returned
aggregatorCall ==
  /\ api = "countByWithMap" /\ pc = "idle"
  /\ Len(results) < 2
  /\ LET m == CountMap(Size(heap, struct))
     IN /\ heap' = Append(heap, NewObj("map", "Map", m))
        /\ results' = Append(results, [ref |-> Ref(Len(heap) + 1),
                                       keys |-> [j \in 1..Len(m) |-> m[j].k],
                                       mutated |-> FALSE])
  /\ UNCHANGED <<heap0, api, struct, fn, fnOnEltsGrouped, newStruct, ret, idx, pc, calls,
                 error, onceVars, cutVars, params, guards, barriers>>

\* the caller writes to a result it was given: result.set(k, 0) or
\* result.delete(k)
mutateResult ==
  /\ \E i \in DOMAIN results, k \in {Str("x"), Bool(TRUE), Num(0)} :
       /\ ~results[i].mutated
       /\ \/ heap' = [heap EXCEPT ![results[i].ref.r].items = MapSet(@, k, Num(0))]
          \/ heap' = [heap EXCEPT ![results[i].ref.r].items =
                                    SelectSeq(@, LAMBDA e : e.k # k)]
       /\ results' = [results EXCEPT ![i].mutated = TRUE]
  /\ UNCHANGED <<heap0, api, struct, fn, fnOnEltsGrouped, newStruct, ret, idx, pc, calls,
                 error, onceVars, cutVars, params, guards, barriers>>

NextInstances ==
  \/ invoke
  \/ done
  \/ aggregatorCall
  \/ mutateResult

SpecInstances == InitInstances /\ [][NextInstances]_vars

\* ------------------------------------------------------ utility functions
\* ToBoolean
Truthy(v) ==
  ~(v.t \in {"undefined", "null"} \/ v = Num(0) \/ v = Str("") \/ v = Bool(FALSE))

Ints == {Num(n) : n \in -1..MaxNum}
IntArrays == {NewObj("array", "Array", s) : s \in SeqsUpTo(Ints, MaxLen)}
Steps == {-1, 1, 2, 3}

\* a quotient rounded away from zero when it is not an integer
RoundedUp(num, den) ==
  LET n == IF den < 0 THEN -num ELSE num
      d == IF den < 0 THEN -den ELSE den
  IN IF n >= 0 THEN (n + d - 1) \div d ELSE -((d - n - 1) \div d)

\* ToIntegerOrInfinity of the quotient num / den: truncation toward zero
ToIntegerOrInfinity(num, den) ==
  LET n == IF den < 0 THEN -num ELSE num
      d == IF den < 0 THEN -den ELSE den
  IN IF n >= 0 THEN n \div d ELSE -((-n) \div d)

\* ToLength of an integer
ToLength(len) == IF len <= 0 THEN 0 ELSE len

\* range = (start, stop, step) =>
\*   Array.from({ length: (stop - start) / step + 1 }, (_, i) => start + i * step)
\* where (stop - start) / step + 1 is the quotient (stop - start + step) / step
rangeOf(start, stop, step) ==
  LET length == ToLength(ToIntegerOrInfinity(stop - start + step, step))
  IN [i \in 1..length |-> Num(start + (i - 1) * step)]

\* (x) => x, the default pluck of min and max
pluck(x) == x.n

\* the callback of reduce in min: min && pluck(min) < pluck(x) ? min : x
minReducer(acc, x) == IF Truthy(acc) /\ pluck(acc) < pluck(x) THEN acc ELSE x

\* the callback of reduce in max: max && pluck(max) > pluck(x) ? max : x
maxReducer(acc, x) == IF Truthy(acc) /\ pluck(acc) > pluck(x) THEN acc ELSE x

\* arr.reduce(callback, initialValue) from element i on
RECURSIVE Reduce(_, _, _, _)
Reduce(which, arr, i, acc) ==
  IF i > Len(arr) THEN acc
  ELSE Reduce(which, arr, i + 1,
              IF which = "min" THEN minReducer(acc, arr[i]) ELSE maxReducer(acc, arr[i]))

\* the keys given to putIfAbsent and addToMapIfKeyAbsent; the values are
\* "old" in the input and "old" or "new" in the call
PrimKeys == {Num(0), Str(""), Bool(FALSE), Undefined, Str("a")}
PropNames == {Str("a"), Str("b"), Str("1")}
OldVal == Str("old")
NewVals == {Str("old"), Str("new")}

PrimKeyMaps ==
  {NewObj("map", "Map", s) :
     s \in {q \in SeqsUpTo([k : PrimKeys, v : {OldVal}], MaxLen) : DistinctKeys(q)}}

LiteralObjects ==
  {NewObj("object", "Object", s) :
     s \in {q \in SeqsUpTo([k : PropNames, v : {OldVal}], MaxLen) :
              DistinctKeys(q) /\ ValidKeyOrder(q)}}

\* what withArraySwap is given: records, Maps, Sets, and an array, a number
\* and null for the other inputs
SwapSources == ObjectSources \cup MapSources \cup SetSources
NoContainers == {Num(1), Null, Undefined}
ArrayFns == {"identity", "reverse", "twice"}

\* <arr>.find(existing => existing === key) over the keys of entries
FindKey(items, key) ==
  IF IndexOfKey(items, key) = 0 THEN Undefined ELSE items[IndexOfKey(items, key)].k

\* a test that reads the element found as the answer
KeyAbsentIfFalsy(found) == ~Truthy(found)

\* keyExists === undefined
KeyAbsent(found) == found = Undefined

\* the array handed to f read from the last entry to the first
ArrayFromBackwards(o) ==
  LET n == Len(o.items)
  IN IF o.kind = "set" THEN [i \in 1..n |-> o.items[n + 1 - i]]
     ELSE [i \in 1..n |-> Entry(o.items[n + 1 - i].k, o.items[n + 1 - i].v)]

\* Object.entries(struct) of a record, Array.from(struct) of a Map or a Set
ArrayFrom(o) == IF o.kind = "set" THEN o.items ELSE ObjectEntries(o.items)

\* f(arrFromStruct)
ApplyArrayFn(f, arr) ==
  CASE f = "identity" -> arr                                 \* (arr) => arr
    [] f = "reverse" -> [i \in 1..Len(arr) |-> arr[Len(arr) + 1 - i]]  \* (arr) => [...arr].reverse()
    [] f = "twice" -> arr \o arr                             \* (arr) => arr.concat(arr)

\* new Set(arr), new Map(arr), Object.fromEntries(arr) from element i on
RECURSIVE FromArray(_, _, _, _)
FromArray(kind, arr, i, acc) ==
  IF i > Len(arr) THEN acc
  ELSE FromArray(kind, arr, i + 1,
                 CASE kind = "set" -> SetAdd(acc, arr[i])
                   [] kind = "map" -> MapSet(acc, arr[i].k, arr[i].v)
                   [] kind = "object" -> DefineOwn(acc, arr[i].k.s, arr[i].v))

InitUtils ==
  /\ OnceIdle /\ CutIdle
  /\ guards = <<>> /\ barriers = <<>> /\ results = <<>>
  /\ fnOnEltsGrouped = "none" /\ newStruct = Undefined
  /\ ret = Undefined /\ idx = 0 /\ pc = "call" /\ calls = <<>> /\ error = "none"
  /\ \/ /\ api = "range"
        /\ heap = Builtins /\ struct = Undefined /\ fn = "none"
        /\ \E start \in -1..MaxNum, stop \in -1..MaxNum, step \in Steps :
             params = <<Num(start), Num(stop), Num(step)>>
     \/ /\ api \in {"min", "max"}
        /\ \E arr \in IntArrays : heap = Builtins \o <<arr>>
        /\ struct = Ref(SrcRef) /\ fn = "none"
        /\ params = <<>>
     \/ /\ api \in {"putIfAbsent", "addToMapIfKeyAbsent"}
        /\ \E map \in PrimKeyMaps : heap = Builtins \o <<map>>
        /\ struct = Ref(SrcRef) /\ fn = "none"
        /\ \E key \in PrimKeys, value \in NewVals : params = <<key, value>>
     \/ /\ api = "addToObjIfKeyAbsent"
        /\ \E obj \in LiteralObjects : heap = Builtins \o <<obj>>
        /\ struct = Ref(SrcRef) /\ fn = "none"
        /\ \E key \in PropNames \cup {Str("constructor")}, value \in NewVals :
             params = <<key, value>>
     \/ /\ api = "withArraySwap"
        /\ \/ /\ \E src \in SwapSources \cup ArraySources : heap = Builtins \o <<src>>
              /\ struct = Ref(SrcRef)
           \/ /\ heap = Builtins
              /\ struct \in NoContainers
        /\ fn \in ArrayFns
        /\ params = <<>>
  /\ heap0 = heap

\* the call range(start, stop, step)
range ==
  /\ pc = "call" /\ api = "range"
  /\ heap' = Append(heap, NewObj("array", "Array",
                                 rangeOf(params[1].n, params[2].n, params[3].n)))
  /\ ret' = Ref(Len(heap'))
  /\ pc' = "done"
  /\ UNCHANGED <<heap0, api, struct, fn, fnOnEltsGrouped, newStruct, idx, calls,
                 error, onceVars, cutVars, libVars>>

\* the call min(arr)
min ==
  /\ pc = "call" /\ api = "min"
  /\ ret' = Reduce("min", heap[struct.r].items, 1, Null)
  /\ pc' = "done"
  /\ UNCHANGED <<heap, heap0, api, struct, fn, fnOnEltsGrouped, newStruct, idx,
                 calls, error, onceVars, cutVars, libVars>>

\* the call max(arr)
max ==
  /\ pc = "call" /\ api = "max"
  /\ ret' = Reduce("max", heap[struct.r].items, 1, Null)
  /\ pc' = "done"
  /\ UNCHANGED <<heap, heap0, api, struct, fn, fnOnEltsGrouped, newStruct, idx,
                 calls, error, onceVars, cutVars, libVars>>

\* the call putIfAbsent(map, newMember, value)
putIfAbsent ==
  /\ pc = "call" /\ api = "putIfAbsent"
  /\ LET isUniqueKey == FindKey(heap[struct.r].items, params[1])
     IN heap' = IF KeyAbsentIfFalsy(isUniqueKey)
                THEN [heap EXCEPT ![struct.r].items = MapSet(@, params[1], params[2])]
                ELSE heap
  /\ pc' = "done"
  /\ UNCHANGED <<heap0, api, struct, fn, fnOnEltsGrouped, newStruct, ret, idx,
                 calls, error, onceVars, cutVars, libVars>>

\* the call addToMapIfKeyAbsent(mapStruct, newKey, value)
addToMapIfKeyAbsent ==
  /\ pc = "call" /\ api = "addToMapIfKeyAbsent"
  /\ LET keyExists == FindKey(heap[struct.r].items, params[1])
         copy == produce(heap, struct, MapSet(heap[struct.r].items, params[1], params[2]))
     IN IF KeyAbsent(keyExists)
        THEN heap' = copy.heap /\ ret' = copy.val
        ELSE heap' = heap /\ ret' = struct
  /\ pc' = "done"
  /\ UNCHANGED <<heap0, api, struct, fn, fnOnEltsGrouped, newStruct, idx,
                 calls, error, onceVars, cutVars, libVars>>

\* the call addToObjIfKeyAbsent(obj, newKey, value)
addToObjIfKeyAbsent ==
  /\ pc = "call" /\ api = "addToObjIfKeyAbsent"
  /\ LET keyExists == FindKey(heap[struct.r].items, params[1])
         copy == produce(heap, struct, ObjSet(heap[struct.r].items, params[1].s, params[2]))
     IN IF KeyAbsent(keyExists)
        THEN heap' = copy.heap /\ ret' = copy.val
        ELSE heap' = heap /\ ret' = struct
  /\ pc' = "done"
  /\ UNCHANGED <<heap0, api, struct, fn, fnOnEltsGrouped, newStruct, idx,
                 calls, error, onceVars, cutVars, libVars>>

\* the call withArraySwap(struct, f)
withArraySwap ==
  /\ pc = "call" /\ api = "withArraySwap"
  /\ LET kind == IF isObject(heap, struct) THEN "object"
                 ELSE IF InstanceOf(heap, struct, "map") THEN "map"
                 ELSE IF InstanceOf(heap, struct, "set") THEN "set"
                 ELSE "none"
     IN IF kind = "none"
        THEN /\ ret' = struct
             /\ UNCHANGED <<heap, calls>>
        ELSE LET arrFromStruct == ArrayFrom(heap[struct.r])
                 h1 == Append(heap, NewObj("array", "Array", arrFromStruct))
                 arrTransformed == ApplyArrayFn(fn, arrFromStruct)
                 cls == CASE kind = "set" -> "Set" [] kind = "map" -> "Map"
                          [] kind = "object" -> "Object"
             IN /\ calls' = <<[f |-> "f", args |-> <<Ref(Len(h1))>>]>>
                /\ heap' = Append(h1, NewObj(kind, cls, FromArray(kind, arrTransformed, 1, <<>>)))
                /\ ret' = Ref(Len(heap'))
  /\ pc' = "done"
  /\ UNCHANGED <<heap0, api, struct, fn, fnOnEltsGrouped, newStruct, idx,
                 error, onceVars, cutVars, libVars>>

NextUtils ==
  \/ range
  \/ min
  \/ max
  \/ putIfAbsent
  \/ addToMapIfKeyAbsent
  \/ addToObjIfKeyAbsent
  \/ withArraySwap

SpecUtils == InitUtils /\ [][NextUtils]_vars

\* ======================================================================
\* Properties
\* ======================================================================
Grouping == api \in {"groupByWithMap", "groupByWithObj"}

Started == pc \in {"loop", "done", "threw"}

\* the source is one of the four variants the functions have a branch for
Supported == heap0[SrcRef].kind \in {"array", "set", "map", "object"}

\* the source as it was when the call was made
Src0 == heap0[SrcRef]

\* the own entries of the result
RetItems == heap[ret.r].items

RECURSIVE SumCounts(_)
SumCounts(items) ==
  IF items = <<>> THEN 0 ELSE Head(items).v.n + SumCounts(Tail(items))

\* the elements of items whose bucket key is K, in source order, from i on
RECURSIVE Pick(_, _, _)
Pick(items, K, i) ==
  IF i > Len(items) THEN <<>>
  ELSE (IF KeyAt(i) = K THEN <<items[i]>> ELSE <<>>) \o Pick(items, K, i + 1)

Range(q) == {q[i] : i \in 1..Len(q)}

\* C1: the counts of the Map built by countByWithMap are numbers >= 1 and
\* sum to the number of elements traversed so far; in the returned Map they
\* sum to the number of elements (entries) of the source.
C1_CountConservation ==
  (api = "countByWithMap" /\ Started) =>
    /\ \A i \in 1..Len(RetItems) : RetItems[i].v.t = "number" /\ RetItems[i].v.n >= 1
    /\ SumCounts(RetItems) = idx - 1
    /\ pc = "done" => SumCounts(RetItems) = Len(Src0.items)

C1_Witness ==
  /\ api = "countByWithMap" /\ pc = "done"
  /\ Len(Src0.items) = MaxLen
  /\ Len(RetItems) = 2
  /\ \E i \in 1..2 : RetItems[i].v.n >= 2

\* C2: with the identity project, the Map returned by groupByWithMap has one
\* bucket per bucket key produced, and the bucket of key K holds exactly the
\* source elements (entries) classified to K, each once, in source order for
\* array, Map and record sources.
C2_Partition ==
  (api = "groupByWithMap" /\ Supported /\ fnOnEltsGrouped = "identity" /\ pc = "done") =>
    /\ {RetItems[j].k : j \in 1..Len(RetItems)} = {KeyAt(i) : i \in 1..Len(Src0.items)}
    /\ \A j \in 1..Len(RetItems) :
         LET b == heap[RetItems[j].v.r].items
             expected == Pick(Src0.items, RetItems[j].k, 1)
         IN IF Src0.kind = "set"
            THEN Len(b) = Len(expected) /\ Range(b) = Range(expected)
            ELSE b = expected

\* C3: every bucket built by groupByWithMap / groupByWithObj is a container
\* of the variant of the source; for a plain object or an instance of a user
\* class it is a plain object.
C3_ShapePreserved ==
  (Grouping /\ Started) =>
    \A j \in 1..Len(RetItems) :
      /\ RetItems[j].v.t = "object"
      /\ heap[RetItems[j].v.r].kind = Src0.kind
      /\ Src0.kind = "object" => heap[RetItems[j].v.r].cls = "Object"

C3_Witness ==
  /\ api = "groupByWithObj" /\ pc = "done"
  /\ Src0.kind = "object" /\ Src0.cls = "myClass"
  /\ Len(RetItems) = 2
  /\ \A j \in 1..2 : heap[RetItems[j].v.r].kind = "object"

\* the buckets of the result are not empty
NoEmptyBucket ==
  (Grouping /\ Started) =>
    \A j \in 1..Len(RetItems) :
      RetItems[j].v.t = "object" /\ Len(heap[RetItems[j].v.r].items) >= 1

\* a key that enters the result in a step comes with a bucket of one element
BucketBornWithElement ==
  (Grouping /\ pc = "loop") =>
    \A j \in 1..Len(heap'[ret.r].items) :
      LET e == heap'[ret.r].items[j]
      IN IndexOfKey(RetItems, e.k) = 0 => Len(heap'[e.v.r].items) = 1

\* C4: at every step of the traversal of groupByWithMap / groupByWithObj and
\* in the returned result every key maps to a bucket with at least one
\* element, and a bucket is created only together with its first element.
C4_NoEmptyBuckets == []NoEmptyBucket /\ [][BucketBornWithElement]_vars

C4_Witness ==
  /\ Grouping /\ pc = "loop" /\ idx = 3
  /\ Len(RetItems) = 2
  /\ \E j \in 1..2 : Len(heap[RetItems[j].v.r].items) = 1

\* C5: the source container, its elements and everything they refer to are
\* equal to the snapshot taken at the call, during and after every
\* aggregator call (the callbacks of the model do not write to the source).
C5_SourceNotMutated ==
  (api # "none") => \A r \in SrcRef..Len(heap0) : heap[r] = heap0[r]

C5_Witness ==
  /\ api = "extractKeysFrom" /\ pc = "done"
  /\ Len(Src0.items) >= 2
  /\ \E j \in 1..Len(RetItems) :
       \E e \in Range(heap[RetItems[j].v.r].items) :
         e.r > Len(heap0) /\ IndexOfKey(heap[e.r].items, Str("key")) = 0

\* C6: however the wrapper made by justOnce is invoked, fn is executed at
\* most once, and it is executed with the arguments of the first invocation.
C6_AtMostOnce ==
  /\ Len(fnRuns) <= 1
  /\ invocations # <<>> => fnRuns = <<invocations[1]>>

C6_Witness ==
  /\ Len(invocations) = MaxCalls
  /\ invocations[2] # invocations[1]
  /\ fnRuns = <<invocations[1]>>

\* C7: the first invocation of the wrapper returns what fn returns for its
\* arguments (x + y for add, undefined for mutateObj), every later
\* invocation returns undefined.
C7_ReturnValues ==
  /\ Len(returns) = Len(invocations)
  /\ \A i \in 1..Len(returns) :
       returns[i] = IF i = 1 /\ onceFn = "add"
                    THEN Num(invocations[1][1].n + invocations[1][2].n)
                    ELSE Undefined

C7_Witness ==
  /\ onceFn = "add"
  /\ Len(returns) = MaxCalls
  /\ returns[1] = Num(2 * MaxNum)
  /\ returns[2] = Undefined

\* callback has run once if the counter has reached limit, else never
OnceAtLimit ==
  (limit >= 1) => Len(callbackRuns) = IF calls_finished >= limit THEN 1 ELSE 0

\* a call of done adds one to the counter, and runs callback exactly when
\* the counter becomes limit
CountsEveryCall ==
  (limit >= 1) =>
    /\ calls_finished' = calls_finished + 1
    /\ Len(callbackRuns') = Len(callbackRuns) + (IF calls_finished' = limit THEN 1 ELSE 0)

\* C8: for a positive limit, callback does not run during the first
\* limit - 1 calls of done, runs once during the limit-th call and never
\* again, and every call (also beyond the limit) adds one to the counter.
C8_ExactlyOnce == []OnceAtLimit /\ [][CountsEveryCall]_cutVars

C8_Witness ==
  /\ limit = 2
  /\ calls_finished = 4
  /\ Len(callbackRuns) = 1

\* C9: when each of N tasks calls done = cut(N, callback) once on
\* completion, callback has not run while a task is pending, and it has run
\* (once, with no task pending) as soon as the last task has completed,
\* whichever task that is.
C9_Barrier ==
  (limit = nTasks) =>
    /\ Len(callbackRuns) = IF pending = {} THEN 1 ELSE 0
    /\ \A i \in 1..Len(callbackRuns) : callbackRuns[i] = {}

C9_Witness ==
  /\ limit = nTasks /\ nTasks >= 3
  /\ pending = {}
  /\ callbackRuns = <<{}>>

\* the i-th element of the source as the unit [key, value] / the bare value
SrcUnit(i) ==
  IF Src0.kind \in {"map", "object"}
  THEN Entry(Src0.items[i].k, Src0.items[i].v)
  ELSE Src0.items[i]

\* C10 as claimed: fn and fnOnEltsGrouped both receive [key, value] for Map
\* and record sources and the bare value for array and Set sources.
C10_UnitToBothCallbacks ==
  (Grouping /\ Supported /\ Started) =>
    \A c \in 1..Len(calls) : calls[c].args[1] = SrcUnit((c + 1) \div 2)

\* C10 (amended): fnOnEltsGrouped receives [key, value], key first, for Map
\* and record sources and the bare value for array and Set sources; fn
\* receives the arguments of forEach: (value, key, map) for a Map,
\* ([key, value], index, entries) for a record, (value, index, array) for an
\* array and (value, value, set) for a Set.
C10_CallbackArguments ==
  (Grouping /\ Supported /\ Started) =>
    \A c \in 1..Len(calls) :
      LET i == (c + 1) \div 2
      IN IF calls[c].f = "fnOnEltsGrouped"
         THEN calls[c].args = <<SrcUnit(i)>>
         ELSE calls[c].args =
                CASE Src0.kind = "map" -> <<Src0.items[i].v, Src0.items[i].k, struct>>
                  [] Src0.kind = "object" -> <<SrcUnit(i), Num(i - 1), newStruct>>
                  [] Src0.kind = "array" -> <<Src0.items[i], Num(i - 1), struct>>
                  [] Src0.kind = "set" -> <<Src0.items[i], Src0.items[i], struct>>

C10_Witness ==
  /\ api = "groupByWithMap" /\ pc = "done"
  /\ Src0.kind = "map"
  /\ Len(calls) = 2 * MaxLen
  /\ calls[1].args[1].t = "number"
  /\ calls[2].args[1].t = "entry"

MapResult == api \in {"countByWithMap", "groupByWithMap"}

\* the keys of the result, in the order the result enumerates them
RetKeys == [j \in 1..Len(RetItems) |-> RetItems[j].k]

\* the distinct bucket keys of the first n elements, in first-occurrence order
RECURSIVE FirstKeys(_)
FirstKeys(n) ==
  IF n = 0 THEN <<>>
  ELSE LET q == FirstKeys(n - 1)
       IN IF KeyAt(n) \in Range(q) THEN q ELSE Append(q, KeyAt(n))

KeysInFirstOccurrenceOrder ==
  (MapResult /\ Supported /\ Started) => RetKeys = FirstKeys(idx - 1)

\* a step of the traversal leaves the keys already in the Map where they are
KeysNeverMove ==
  (MapResult /\ pc = "loop") =>
    LET keys2 == [j \in 1..Len(heap'[ret.r].items) |-> heap'[ret.r].items[j].k]
    IN Len(keys2) >= Len(RetKeys) /\ SubSeq(keys2, 1, Len(RetKeys)) = RetKeys

\* C11: for a source of a supported variant, the keys of the Map built by
\* countByWithMap and groupByWithMap are the distinct bucket keys of the
\* elements processed so far in the order of their first occurrence, and a
\* later element with a key already in the Map never moves that key.
C11_KeyOrder == []KeysInFirstOccurrenceOrder /\ [][KeysNeverMove]_vars

C11_Witness ==
  /\ MapResult /\ pc = "done"
  /\ Len(Src0.items) = 3
  /\ Len(RetKeys) = 2
  /\ KeyAt(2) = RetKeys[2]
  /\ KeyAt(3) = RetKeys[1]

\* the c-th call of the log is one that throws
CallThrows(c) ==
  \/ calls[c].f = "fn" /\ ClassifyThrows(fn, calls[c].args)
  \/ calls[c].f = "fnOnEltsGrouped" /\ ProjectThrows(fnOnEltsGrouped, calls[c].args[1])

\* C12: in countByWithMap, countByWithObj, groupByWithMap and groupByWithObj
\* a call of fn or fnOnEltsGrouped that throws is the last call made to
\* either callback, its error is the one that reaches the caller, and the
\* function has not returned (no result, not even the partial one built so
\* far).
C12_FailFast ==
  (api \in {"countByWithMap", "countByWithObj", "groupByWithMap", "groupByWithObj"}
   /\ Started) =>
    \A c \in 1..Len(calls) :
      CallThrows(c) => c = Len(calls) /\ pc = "threw" /\ error = "Error: boom"

C12_Witness ==
  /\ api = "groupByWithObj" /\ pc = "threw" /\ error = "Error: boom"
  /\ calls[Len(calls)].f = "fnOnEltsGrouped"
  /\ idx < Len(Src0.items)
  /\ Len(RetItems) >= 1

\* the sum of the counts of the entries of m whose key has the string form s
RECURSIVE SumFor(_, _)
SumFor(m, s) ==
  IF m = <<>> THEN 0
  ELSE (IF JSToString(heap, Head(m).k) = s THEN Head(m).v.n ELSE 0) + SumFor(Tail(m), s)

\* C13: the own properties of the record returned by countByWithObj are the
\* string forms of the keys of the Map countByWithMap returns for the same
\* source and classifier, each with the sum of the Map counts of the keys of
\* that string form, so the counts of the record sum to the size of the
\* source.
C13_ObjAgreesWithMap ==
  (api = "countByWithObj" /\ pc = "done") =>
    LET m == CountMap(Len(Src0.items))
    IN /\ {RetItems[j].k.s : j \in 1..Len(RetItems)} =
            {JSToString(heap, m[j].k) : j \in 1..Len(m)}
       /\ \A j \in 1..Len(RetItems) : RetItems[j].v = Num(SumFor(m, RetItems[j].k.s))
       /\ SumCounts(RetItems) = Len(Src0.items)

\* the unit of the i-th element of the traversal and what project makes of it
UnitAt(i) == UnitOf(Branch(heap, struct), ForEachArgs(heap, Traversed, i))

FinalValAt(i) == Project(fnOnEltsGrouped, UnitAt(i), heap).val

\* neither callback throws on any element of the source
NoCallbackThrows ==
  \A i \in 1..Size(heap, Traversed) :
    /\ ~ClassifyThrows(fn, ForEachArgs(heap, Traversed, i))
    /\ ~ProjectThrows(fnOnEltsGrouped, UnitAt(i))

\* the content of a bucket after the write of finalVal into it
BucketAdd(kind, items, finalVal) ==
  LET h == Append(heap, NewObj(kind, "Bucket", items))
  IN InsertInto(h, kind, Ref(Len(h)), finalVal).heap[Len(h)].items

\* the Map groupByWithMap builds from the first n elements of the traversal
\* with the callbacks of the call: key |-> content of the bucket
RECURSIVE GroupMap(_)
GroupMap(n) ==
  IF n = 0 THEN <<>>
  ELSE LET m == GroupMap(n - 1)
           kind == Branch(heap, struct)
           key == KeyAt(n)
           b == MapGet(m, key)
       IN IF b # Undefined
          THEN MapSet(m, key, [items |-> BucketAdd(kind, b.items, FinalValAt(n))])
          ELSE MapSet(m, key, [items |-> NewBucket(heap, kind, FinalValAt(n)).items])

\* no two keys of m have the same string form
CoercionInjective(m) ==
  \A i, j \in 1..Len(m) :
    JSToString(heap, m[i].k) = JSToString(heap, m[j].k) => i = j

\* C14: when groupByWithMap returns for a source and callbacks (no callback
\* throws) and no two of its keys coerce to the same string, groupByWithObj
\* returns for the same arguments a record with exactly one own property per
\* key of that Map, named by the string form of the key, whose value is a
\* bucket with the content of the Map's bucket.
C14_ObjAgreesWithMap ==
  (api = "groupByWithObj" /\ Supported /\ pc \in {"done", "threw"} /\ NoCallbackThrows) =>
    LET m == GroupMap(Len(Src0.items))
    IN CoercionInjective(m) =>
         /\ pc = "done"
         /\ Len(RetItems) = Len(m)
         /\ \A j \in 1..Len(m) :
              LET v == MapGet(RetItems, Str(JSToString(heap, m[j].k)))
              IN /\ v.t = "object"
                 /\ heap[v.r].kind = Src0.kind
                 /\ heap[v.r].items = m[j].v.items

\* C15: in groupByWithMap and groupByWithObj on a source of a supported
\* variant the calls are, element by element in the order of the traversal,
\* fn on the arguments forEach gives for the element (the element itself,
\* not what project makes of it) and then fnOnEltsGrouped on the unit of the
\* same element; two calls have been made per element processed, and 2 * size
\* calls when the function returns.
C15_CallbackOrder ==
  (Grouping /\ Supported /\ Started) =>
    /\ \A c \in 1..Len(calls) :
         LET i == (c + 1) \div 2
         IN IF c % 2 = 1
            THEN /\ calls[c].f = "fn"
                 /\ calls[c].args = ForEachArgs(heap, Traversed, i)
                 /\ calls[c].args[1] = SrcUnit(i) \/ Src0.kind = "map"
            ELSE /\ calls[c].f = "fnOnEltsGrouped"
                 /\ calls[c].args = <<UnitAt(i)>>
    /\ pc = "loop" => Len(calls) = 2 * (idx - 1)
    /\ pc = "done" => Len(calls) = 2 * Len(Src0.items)

C15_Witness ==
  /\ api = "groupByWithObj" /\ pc = "done"
  /\ Src0.kind = "array"
  /\ fnOnEltsGrouped = "decrement"
  /\ Len(calls) = 2 * MaxLen
  /\ calls[3].f = "fn" /\ calls[3].args[1] = Src0.items[2]
  /\ calls[4].f = "fnOnEltsGrouped"

\* C16: for an empty array, Set, Map or record, whatever the classifier,
\* countByWithMap and groupByWithMap return a Map without entries,
\* countByWithObj and groupByWithObj return a plain object without own
\* properties, and no callback is called.
C16_EmptySource ==
  (api \in {"countByWithMap", "countByWithObj", "groupByWithMap", "groupByWithObj"}
   /\ Supported /\ Src0.items = <<>> /\ Started) =>
    /\ pc = "done" /\ error = "none"
    /\ RetItems = <<>>
    /\ IF MapResult THEN heap[ret.r].kind = "map"
       ELSE heap[ret.r].kind = "object" /\ heap[ret.r].cls = "Object"
    /\ calls = <<>>

C16_Witness ==
  /\ api = "countByWithMap" /\ pc = "done"
  /\ Src0.kind = "object" /\ Src0.items = <<>>
  /\ fn = "throwsOnOneEntry"
  /\ heap[ret.r].kind = "map" /\ RetItems = <<>>

\* equal by value: the same primitive, or objects with equal content
EqualByValue(a, b) ==
  IF a.t = "object" /\ b.t = "object" THEN heap[a.r] = heap[b.r] ELSE a = b

\* C17 as claimed: in countByWithMap and groupByWithMap classifier results
\* that are equal by value, two distinct but structurally equal objects
\* included, fall under one and the same key of the Map.
C17_ComparedByValue ==
  (MapResult /\ Supported /\ Started) =>
    \A j1, j2 \in 1..Len(RetItems) :
      EqualByValue(RetItems[j1].k, RetItems[j2].k) => j1 = j2

\* C17 (amended): the keys of the Map built by countByWithMap and
\* groupByWithMap are compared as a Map compares them: every classifier
\* result of an element processed is a key of the Map, equal primitives and
\* one and the same object are one key, two distinct objects are two keys
\* whatever their content; in countByWithMap the count of a key is the
\* number of elements whose classifier result is that primitive or that very
\* object.
C17_ComparedAsMapKeys ==
  (MapResult /\ Supported /\ Started) =>
    /\ \A i \in 1..(idx - 1) : \E j \in 1..Len(RetItems) : RetItems[j].k = KeyAt(i)
    /\ \A j1, j2 \in 1..Len(RetItems) : RetItems[j1].k = RetItems[j2].k => j1 = j2
    /\ api = "countByWithMap" =>
         \A j \in 1..Len(RetItems) :
           RetItems[j].v = Num(Cardinality({i \in 1..(idx - 1) : KeyAt(i) = RetItems[j].k}))

C17_Witness ==
  /\ api = "countByWithMap" /\ pc = "done" /\ fn = "keyOf"
  /\ Len(Src0.items) = 3
  /\ KeyAt(1).t = "object" /\ KeyAt(2) = KeyAt(1)
  /\ KeyAt(3).t = "object" /\ KeyAt(3) # KeyAt(1) /\ EqualByValue(KeyAt(3), KeyAt(1))
  /\ Len(RetItems) = 2
  /\ RetItems[1].v = Num(2) /\ RetItems[2].v = Num(1)

\* the string form of the `key` of the i-th element handed to extractKeysFrom
ElemKeyString(i) == JSToString(heap0, ObjGet(heap0, Src0.items[i].r, "key"))

\* the own properties of the elements whose key has the string form s, each
\* without `key`, in source order, from element i on
RECURSIVE WithoutKeyFrom(_, _)
WithoutKeyFrom(s, i) ==
  IF i > Len(Src0.items) THEN <<>>
  ELSE (IF ElemKeyString(i) = s
        THEN <<SelectSeq(heap0[Src0.items[i].r].items, LAMBDA e : e.k # Str("key"))>>
        ELSE <<>>)
       \o WithoutKeyFrom(s, i + 1)

\* C18: extractKeysFrom(arr) returns a plain object whose own properties are
\* the distinct string forms of the elements' `key` values ("[object Object]"
\* for an object); each property holds an array with, in source order, one
\* new object per element of that key, which has the element's properties
\* except `key`.
C18_ExtractKeys ==
  (api = "extractKeysFrom" /\ pc \in {"done", "threw"}) =>
    /\ pc = "done"
    /\ heap[ret.r].kind = "object" /\ heap[ret.r].cls = "Object"
    /\ {RetItems[j].k.s : j \in 1..Len(RetItems)} =
         {ElemKeyString(i) : i \in 1..Len(Src0.items)}
    /\ \A j \in 1..Len(RetItems) :
         LET v == RetItems[j].v
             expected == WithoutKeyFrom(RetItems[j].k.s, 1)
         IN /\ v.t = "object" /\ heap[v.r].kind = "array"
            /\ Len(heap[v.r].items) = Len(expected)
            /\ \A n \in 1..Len(expected) :
                 LET e == heap[v.r].items[n]
                 IN /\ e.t = "object" /\ e.r > Len(heap0)
                    /\ heap[e.r].kind = "object"
                    /\ heap[e.r].items = expected[n]

\* an array or Set of falsy elements with a classifier whose results are falsy
\* (and, in groupByWithMap, the default project)
FalsyCase ==
  /\ Src0.kind \in {"array", "set"}
  /\ \A i \in 1..Len(Src0.items) : Src0.items[i] \in FalsyVals
  /\ fn \in FalsyClassifiers
  /\ fnOnEltsGrouped \in {"none", "identity"}

\* the returned Map counts / groups every falsy element under its key
FalsyCounted ==
  (MapResult /\ FalsyCase /\ pc = "done") =>
    /\ {RetItems[j].k : j \in 1..Len(RetItems)} = {KeyAt(i) : i \in 1..Len(Src0.items)}
    /\ \A j \in 1..Len(RetItems) :
         IF api = "countByWithMap"
         THEN RetItems[j].v =
                Num(Cardinality({i \in 1..Len(Src0.items) : KeyAt(i) = RetItems[j].k}))
         ELSE LET b == heap[RetItems[j].v.r].items
                  expected == Pick(Src0.items, RetItems[j].k, 1)
              IN IF Src0.kind = "set"
                 THEN Len(b) = Len(expected) /\ Range(b) = Range(expected)
                 ELSE b = expected

\* an element whose key is already in the Map adds one to the count of the
\* key, or one element to the bucket of the key, and adds no entry
ExistingBucketKept ==
  (MapResult /\ FalsyCase /\ pc = "loop") =>
    LET j == IndexOfKey(RetItems, KeyAt(idx))
        items2 == heap'[ret.r].items
    IN j # 0 =>
         /\ Len(items2) = Len(RetItems)
         /\ IF api = "countByWithMap"
            THEN items2[j].v = Num(RetItems[j].v.n + 1)
            ELSE /\ items2[j].v = RetItems[j].v
                 /\ heap'[items2[j].v.r].items =
                      Append(heap[RetItems[j].v.r].items, ForEachArgs(heap, Traversed, idx)[1])

\* C19: in countByWithMap and groupByWithMap falsy elements (0, "", false,
\* null, undefined) and falsy or undefined classifier results are counted and
\* grouped like any other value: the returned Map has the right count /
\* bucket for every key, and an element whose key is already present
\* increments the count or extends the bucket of the key instead of
\* resetting it.
C19_FalsyValues == []FalsyCounted /\ [][ExistingBucketKept]_vars

C19_Witness ==
  /\ api = "groupByWithMap" /\ pc = "done" /\ fn = "self"
  /\ Src0.kind = "array"
  /\ Src0.items = <<Undefined, Num(0), Undefined>>
  /\ Len(RetItems) = 2
  /\ RetItems[1].k = Undefined
  /\ heap[RetItems[1].v.r].items = <<Undefined, Undefined>>

\* C20: for a source that has forEach and is none of array, Set, Map or
\* plain / custom object (a typed array), groupByWithMap and groupByWithObj
\* call fn on each element and nothing else: no project call, no bucket, no
\* entry in the result, no error other than one thrown by fn; the function
\* returns the empty result after fn was called once per element.
C20_UnsupportedSource ==
  (Grouping /\ ~Supported /\ Started) =>
    /\ RetItems = <<>>
    /\ Len(heap) = Len(heap0) + 1
    /\ error # "TypeError"
    /\ \A c \in 1..Len(calls) :
         calls[c].f = "fn" /\ calls[c].args = ForEachArgs(heap, Traversed, c)
    /\ pc = "done" => error = "none" /\ Len(calls) = Len(Src0.items)

C20_Witness ==
  /\ api = "groupByWithMap" /\ pc = "done"
  /\ Src0.kind = "typedarray"
  /\ Len(Src0.items) = MaxLen
  /\ Len(calls) = MaxLen
  /\ heap[ret.r].kind = "map" /\ RetItems = <<>>

\* each guard runs its fn on its own first invocation and on no other,
\* whatever was done with the other guard
GuardsIndependent ==
  \A g \in DOMAIN guards :
    guards[g].fnRuns =
      IF guards[g].invocations = <<>> THEN <<>> ELSE <<guards[g].invocations[1]>>

\* each barrier counts its own calls of done (and the one its callback
\* makes) and runs its callback when its own count is its limit
BarriersIndependent ==
  \A b \in DOMAIN barriers :
    LET B == barriers[b]
        reachable == B.limit2 > 0 /\ B.limit2 % 2 = 0
        fired == reachable /\ 2 * B.dones >= B.limit2
    IN /\ B.calls_finished = B.dones + (IF fired /\ B.callback = "reenter" THEN 1 ELSE 0)
       /\ B.callbackRuns = IF fired THEN <<B.limit2 \div 2>> ELSE <<>>

\* the results returned are distinct objects, and a result the caller has
\* not written to has the keys it was returned with
ResultsIndependent ==
  /\ \A i, j \in DOMAIN results : results[i].ref = results[j].ref => i = j
  /\ \A i \in DOMAIN results :
       /\ results[i].ref.r > Len(heap0)
       /\ ~results[i].mutated =>
            [j \in 1..Len(heap[results[i].ref.r].items) |->
               heap[results[i].ref.r].items[j].k] = results[i].keys

\* a step changes the state of one guard, one barrier or one result only
OneInstancePerStep ==
  /\ \A g, h \in DOMAIN guards :
       (guards'[g] # guards[g] /\ guards'[h] # guards[h]) => g = h
  /\ \A b, c \in DOMAIN barriers :
       (barriers'[b] # barriers[b] /\ barriers'[c] # barriers[c]) => b = c
  /\ \A i, j \in DOMAIN results :
       (heap'[results[i].ref.r] # heap[results[i].ref.r]
        /\ heap'[results[j].ref.r] # heap[results[j].ref.r]) => i = j

\* C21: two guards made by separate calls of justOnce, and two barriers made
\* by separate calls of cut, each have their own flag / counter: under every
\* interleaving a guard runs its fn exactly on its own first invocation and a
\* barrier runs its callback exactly when its own count reaches its limit;
\* two calls of countByWithMap return two distinct new Maps, and writing to
\* one leaves the keys of the other as returned.
C21_InstanceIndependence ==
  /\ [](GuardsIndependent /\ BarriersIndependent /\ ResultsIndependent)
  /\ [][OneInstancePerStep]_vars

C21_Witness ==
  /\ Len(guards) = 2
  /\ guards[1].fn = "echo" /\ guards[2].fn = "echo"
  /\ Len(guards[1].invocations) = MaxCalls
  /\ Len(guards[2].invocations) = 1
  /\ guards[1].fnRuns = <<Num(0)>>
  /\ guards[2].fnRuns = <<Num(1)>>
  /\ guards[2].returns = <<Num(1)>>

\* C28: the flag of a guard is set before fn is entered: once the wrapper
\* has been invoked the flag is true and fn has run exactly once, also when fn
\* invokes the wrapper itself (that invocation returns undefined) and when fn
\* throws (the first invocation ends with the error of fn, fn is not run
\* again); every invocation after the first returns undefined.
C28_GuardConsumedFirst ==
  \A g \in DOMAIN guards :
    LET G == guards[g]
    IN G.invocations # <<>> =>
         /\ G.alreadyCalled
         /\ G.fnRuns = <<G.invocations[1]>>
         /\ Len(G.returns) = Len(G.invocations)
         /\ G.returns[1] = CASE G.fn = "echo" -> G.invocations[1]
                             [] G.fn = "reenter" -> Undefined
                             [] G.fn = "throws" -> Threw
         /\ \A i \in 2..Len(G.returns) : G.returns[i] = Undefined

C28_Witness ==
  /\ Len(guards) = 2
  /\ guards[1].fn = "reenter" /\ guards[2].fn = "throws"
  /\ Len(guards[1].invocations) >= 2 /\ Len(guards[1].fnRuns) = 1
  /\ guards[2].returns = <<Threw, Undefined>>
  /\ Len(guards[2].fnRuns) = 1

\* C29: a barrier whose limit is <= 0 or no integer never runs its callback,
\* however often done is called; no barrier runs its callback twice, also
\* when the callback calls done itself (the counter is then past the limit)
\* or throws (the counter keeps the increment: one error at most, and the
\* count of every call made).
C29_UnreachableLimit ==
  \A b \in DOMAIN barriers :
    LET B == barriers[b]
    IN /\ (B.limit2 <= 0 \/ B.limit2 % 2 = 1) => B.callbackRuns = <<>>
       /\ Len(B.callbackRuns) <= 1
       /\ B.calls_finished >= B.dones /\ B.calls_finished >= 0
       /\ B.callbackRuns # <<>> =>
            /\ 2 * B.callbackRuns[1] = B.limit2
            /\ B.callback = "reenter" => 2 * B.calls_finished > B.limit2
       /\ B.errors = IF B.callback = "throws" THEN Len(B.callbackRuns) ELSE 0

C29_Witness ==
  /\ Len(barriers) = 2
  /\ barriers[1].limit2 = 3 /\ barriers[1].dones = MaxDone
  /\ barriers[1].callbackRuns = <<>>
  /\ barriers[2].limit2 = 2 /\ barriers[2].callback = "reenter"
  /\ barriers[2].dones = 2 /\ barriers[2].calls_finished = 3
  /\ barriers[2].callbackRuns = <<1>>

\* what project returns for the elements of bucket key K, in source order,
\* from element i on
RECURSIVE FinalVals(_, _)
FinalVals(K, i) ==
  IF i > Len(Src0.items) THEN <<>>
  ELSE (IF KeyAt(i) = K THEN <<FinalValAt(i)>> ELSE <<>>) \o FinalVals(K, i + 1)

\* the key under which a bucket of the variant of the source stores finalVal
StoredKey(finalVal) ==
  IF Src0.kind = "object" THEN Str(JSToString(heap, At0(finalVal))) ELSE At0(finalVal)

RECURSIVE SumSizes(_)
SumSizes(items) ==
  IF items = <<>> THEN 0
  ELSE Len(heap[Head(items).v.r].items) + SumSizes(Tail(items))

C27_WritesConfined ==
  api \in {"countByWithObj", "groupByWithObj"} =>
    \A r \in 1..Len(heap0) : heap[r] = heap0[r]

\* C30: for integers start, stop and step >= 1, range(start, stop, step) is
\* the increasing sequence start, start + step, ... of the terms that do not
\* exceed stop: floor((stop - start) / step) + 1 terms when start <= stop,
\* none when start > stop.
C30_Range ==
  (api = "range" /\ pc = "done" /\ params[3].n >= 1) =>
    LET start == params[1].n
        stop == params[2].n
        step == params[3].n
        r == heap[ret.r].items
    IN /\ heap[ret.r].kind = "array"
       /\ \A i \in 1..Len(r) : r[i] = Num(start + (i - 1) * step) /\ r[i].n <= stop
       /\ \A i \in 1..(Len(r) - 1) : r[i].n < r[i + 1].n
       /\ start <= stop => Len(r) = ((stop - start) \div step) + 1
       /\ start > stop => r = <<>>
       /\ start + Len(r) * step > stop

C30_Witness ==
  /\ api = "range" /\ pc = "done"
  /\ params = <<Num(-1), Num(2), Num(2)>>
  /\ heap[ret.r].items = <<Num(-1), Num(1)>>


Least(S) == CHOOSE x \in S : \A y \in S : x <= y


Greatest(S) == CHOOSE x \in S : \A y \in S : x >= y

\* C25: min and max return null for an empty array and, for a non-empty
\* array of integers (0 and negative numbers included), the smallest and the
\* largest element.
C25_MinMax ==
  (api \in {"min", "max"} /\ pc = "done") =>
    LET arr == heap[struct.r].items
        S == {arr[i].n : i \in 1..Len(arr)}
    IN IF arr = <<>> THEN ret = Null
       ELSE ret = Num(IF api = "min" THEN Least(S) ELSE Greatest(S))

\* C24: putIfAbsent binds value to key only when key is not a key of the
\* map; when the key is present, be it 0, "" or false, the map is as before.
C24_PutIfAbsent ==
  (api = "putIfAbsent" /\ pc = "done") =>
    LET before == heap0[struct.r].items
        after == heap[struct.r].items
    IN IF \E i \in 1..Len(before) : before[i].k = params[1]
       THEN after = before
       ELSE after = Append(before, [k |-> params[1], v |-> params[2]])

\* C23: addToMapIfKeyAbsent and addToObjIfKeyAbsent never write to their
\* input; when the key is present (whatever the key and the value bound to
\* it) they return the input itself, and when it is absent they return a new
\* Map / object holding the entries of the input followed by (key, value).
C23_AddIfKeyAbsent ==
  (api \in {"addToMapIfKeyAbsent", "addToObjIfKeyAbsent"} /\ pc = "done") =>
    LET before == heap0[struct.r].items
    IN /\ heap[struct.r] = heap0[struct.r]
       /\ IF \E i \in 1..Len(before) : before[i].k = params[1]
          THEN ret = struct
          ELSE /\ ret.r > Len(heap0)
               /\ heap[ret.r].kind = heap0[struct.r].kind
               /\ {heap[ret.r].items[i] : i \in 1..Len(heap[ret.r].items)}
                    = {before[i] : i \in 1..Len(before)}
                      \cup {[k |-> params[1], v |-> params[2]]}
               /\ Len(heap[ret.r].items) = Len(before) + 1

====
